---------------------------- MODULE Spec2Model ----------------------------
(***************************************************************************)
(* Model of programminglanguage2023_refactored.py: the retrying HTTP       *)
(* client (HTTPClient.fetch), the per-site scraping thread                 *)
(* (NewsScraping.scrape_news / start_thread / stop_thread), the            *)
(* aggregation loop (main_thread) and the SIGINT handler of __main__.      *)
(*                                                                         *)
(* Each scraper i owns a loop thread whose position is pc[i]; the main     *)
(* thread's position is mpc, with the signal handler (hpc) running on top  *)
(* of it.  Blocking calls (the transport call, time.sleep, Thread.join)    *)
(* carry a remaining duration (timer, mtimer, jwait).  When timed = TRUE the    *)
(* action Tick lets one second pass; when timed = FALSE every duration is  *)
(* 0 and the model is the plain interleaving of the threads' steps.        *)
(***************************************************************************)
EXTENDS Integers, Sequences, FiniteSets, TLC

(* ------------------------------ bounds -------------------------------- *)
NumScrapers == 2        \* scrapers constructed from configs
MaxQueue == 2           \* items a news_queue holds at most (input bound)
MaxRetriesArg == 4      \* largest max_retries an HTTPClient is built with
MaxInterval == 2        \* largest interval a NewsScraping is built with
Interval == 1           \* interval of the scrapers of configs
MaxSignals == 1         \* SIGINTs delivered to the process

(* ------------------------- program constants -------------------------- *)
DefaultTimeout == 30    \* HTTPClient.__init__ timeout
DefaultMaxRetries == 3  \* HTTPClient.__init__ max_retries
JoinTimeout == 5        \* stop_thread: thread.join(timeout=5)
ErrorPause == 5         \* scrape_news: time.sleep(5)
SleepStep == 1          \* scrape_news: time.sleep(1)
AggTick == 1            \* main_thread: time.sleep(1)

ScraperIds == 1..NumScrapers

(* ----------------------------- data ----------------------------------- *)
\* A candidate news element of a page: the strings the parser extracted.
Cand(title, desc, ts) ==
    [name |-> "SiteA", title |-> title, desc |-> desc, timestamp |-> ts]

ItemT1 == Cand("T1", "D1", "2023-01-01")
ItemT2 == Cand("T2", "D2", "2023-01-02")
ItemNoDesc == Cand("T3", "", "2023-01-03")

\* Pages a site may serve: the html of a response, as the sequence of
\* candidate elements it holds (<<>> is an empty body).
Headline == { <<ItemT1>>, <<ItemNoDesc, ItemT1>> }
FrontPage == { <<>>, <<ItemT1, ItemT2>>, <<ItemNoDesc, ItemT2>> }
TopStories == { <<ItemT1, ItemT2>> }
BackPage == { <<ItemT2, ItemT1>> }

\* The urls of configs (lines 316-318), which are those _create_parser
\* knows (lines 225-230).
Configs ==
    << "https://www.liputan6.com/", "https://www.bisnis.com/",
       "https://www.abc.net.au/news/indonesian" >>

SiteOf(i) == Configs[((i - 1) % Len(Configs)) + 1]

\* No NewsItem(...) call has been made.
NoArgs == [name |-> "", title |-> "", desc |-> "", timestamp |-> ""]

\* Variant of NewsItemValid: any() for all().
NewsItemValidAny(c) ==
    c.name # "" \/ c.title # "" \/ c.desc # "" \/ c.timestamp # ""

\* NewsItem.__init__: all([name, title, desc, timestamp]) or ValueError.
NewsItemValid(c) ==
    c.name # "" /\ c.title # "" /\ c.desc # "" /\ c.timestamp # ""

\* NewsParser.parse: one NewsItem per candidate with title, desc and
\* timestamp non-empty, in page order; other candidates are skipped.
RECURSIVE parse(_)
parse(html) ==
    IF html = <<>> THEN <<>>
    ELSE LET c == Head(html)
         IN  IF c.title # "" /\ c.desc # "" /\ c.timestamp # "" /\ NewsItemValid(c)
             THEN <<c>> \o parse(Tail(html))
             ELSE parse(Tail(html))

\* main_thread: news_tuple = (news.name, news.title, news.desc, news.timestamp)
news_tuple(news) == <<news.name, news.title, news.desc, news.timestamp>>

\* Variant of Backoff: the attempt counted from 1, as the log line does.
BackoffFromOne(attempt) == 2 ^ (attempt + 1)

\* HTTPClient.fetch: time.sleep(2 ** attempt)
Backoff(attempt) == 2 ^ attempt

\* The value fetch returns: None, or response.text.
None == [none |-> TRUE, html |-> <<>>]
Text(html) == [none |-> FALSE, html |-> html]

\* Strings a field of a NewsItem(...) call may hold.
FieldText == {"", "a", "b"}

(* ----------------------------- state ---------------------------------- *)
VARIABLES
    timed,        \* TRUE: durations are counted in seconds by Tick
    scrapers,     \* the scrapers list of __main__ (constructed scrapers)
    max_retries,  \* HTTPClient.max_retries of every scraper's client
    interval,     \* NewsScraping.interval, per scraper
    web,          \* the pages each scraper's site may serve
    net,          \* "up", or "refused": every transport call fails hard
    stop_event,   \* NewsScraping.stop_event.is_set(), per scraper
    thread,       \* NewsScraping.thread: "none" | "alive" | "dead"
    news_queue,   \* NewsScraping.news_queue, per scraper
    pc,           \* position of the loop thread in scrape_news
    attempt,      \* HTTPClient.fetch: the for-loop variable
    result,       \* value returned by fetch (html_content)
    news_data,    \* items of the current batch not yet visited
    left,         \* iterations left of the interval for-loop
    timer,        \* seconds left of the thread's current blocking call
    loops,        \* loop threads launched for the scraper and not ended
    last_start,   \* what the last start_thread did: "launched" | "already"
    calls,        \* transport calls made by the current fetch call
    timeouts,     \* ... how many of them timed out
    hard,         \* ... whether one raised another RequestException
    served,       \* ... the page the transport served, if it served one
    waits,        \* backoff sleeps made by the current fetch call
    mpc,          \* position of the main thread
    sidx,         \* main_thread: the scraper of the for loop (line 286)
    news,         \* main_thread: the item taken from the queue
    seen_news,    \* main_thread: seen_news
    sink,         \* the tuples printed so far, in order
    fidx,         \* main_thread: the scraper of the finally loop (line 306)
    hpc,          \* signal_handler: "off" | "run"
    hidx,         \* signal_handler: the scraper of its for loop (line 332)
    signals,      \* SIGINTs delivered so far
    stopping,     \* the scraper whose stop_thread is joining, or 0
    jwait,        \* seconds the current join has waited
    mtimer,       \* seconds left of the main thread's time.sleep
    sinceStop,    \* seconds a live loop thread has had its stop event set
    pushed,       \* per scraper: the distinct tuples it has put, in order
    fwd,          \* per scraper: the tuples printed from its queue, in order
    configs,      \* the entries of the configs list of __main__
    news_site,    \* the url of each entry
    built,        \* what NewsScraping(url, interval) gave for each entry
    args,         \* the arguments of a NewsItem(...) call
    made,         \* its outcome: "none" yet | "NewsItem" | "ValueError"
    item,         \* the NewsItem it constructed, if any
    passTime      \* seconds the running pass of stop_thread calls has taken

fetchLog == <<calls, timeouts, hard, served, waits>>
loopVars == <<pc, attempt, result, news_data, left, timer, fetchLog>>
pollerVars == <<stop_event, thread, loops, last_start, news_queue, pushed,
                loopVars>>
configVars == <<timed, scrapers, max_retries, interval, web, net, configs,
                news_site>>
ctorVars == <<built, args, made, item>>
aggVars == <<sidx, news, seen_news, sink, fwd, fidx>>
mainVars == <<mpc, aggVars, hpc, hidx, signals, stopping, jwait, mtimer,
              passTime>>
vars == <<configVars, ctorVars, pollerVars, mainVars, sinceStop>>

\* A blocking call of d seconds.
Dur(d) == IF timed THEN d ELSE 0

(* ------------------- NewsScraping.scrape_news ------------------------- *)
\* The loop thread of scraper i takes steps: it is alive and the process
\* has not exited (the thread is a daemon thread, line 266).
Running(i) == thread[i] = "alive" /\ mpc # "done"

\* The fetch call has returned: its log is cleared.
NoLog ==
    [calls |-> 0, timeouts |-> 0, hard |-> FALSE, served |-> <<>>, waits |-> <<>>]

ClearLog(i) ==
    /\ calls' = [calls EXCEPT ![i] = NoLog.calls]
    /\ timeouts' = [timeouts EXCEPT ![i] = NoLog.timeouts]
    /\ hard' = [hard EXCEPT ![i] = NoLog.hard]
    /\ served' = [served EXCEPT ![i] = NoLog.served]
    /\ waits' = [waits EXCEPT ![i] = NoLog.waits]

\* line 240: while not self.stop_event.is_set(): the thread ends when the
\* event is set; else line 242 enters fetch, line 38 starts attempt 0 and
\* line 41 issues the transport call.
LoopCheck(i) ==
    /\ Running(i) /\ pc[i] = "loop"
    /\ IF stop_event[i]
       THEN /\ thread' = [thread EXCEPT ![i] = "dead"]
            /\ loops' = [loops EXCEPT ![i] = @ - 1]
            /\ pc' = [pc EXCEPT ![i] = "exit"]
            /\ UNCHANGED <<attempt, timer, calls>>
       ELSE /\ pc' = [pc EXCEPT ![i] = "get"]
            /\ attempt' = [attempt EXCEPT ![i] = 0]
            /\ calls' = [calls EXCEPT ![i] = 1]
            /\ timer' = [timer EXCEPT ![i] = Dur(DefaultTimeout)]
            /\ UNCHANGED <<thread, loops>>
    /\ UNCHANGED <<stop_event, last_start, news_queue, pushed, result,
                   news_data, left, timeouts, hard, served, waits>>

\* lines 41-43: the response arrives in time, raise_for_status passes and
\* fetch returns response.text.
TransportOk(i, html) ==
    /\ Running(i) /\ pc[i] = "get" /\ net[i] = "up"
    /\ Len(news_queue[i]) + Len(parse(html)) <= MaxQueue
    /\ served' = [served EXCEPT ![i] = <<html>>]
    /\ result' = [result EXCEPT ![i] = Text(html)]
    /\ pc' = [pc EXCEPT ![i] = "ret"]
    /\ timer' = [timer EXCEPT ![i] = 0]
    /\ UNCHANGED <<stop_event, thread, loops, last_start, news_queue, pushed,
                   attempt, news_data, left, calls, timeouts, hard, waits>>

\* Variant of Retry: one attempt more than max_retries.
RetryOnceMore(i) ==
    IF attempt[i] < max_retries
    THEN /\ pc' = [pc EXCEPT ![i] = "backoff"]
         /\ timer' = [timer EXCEPT ![i] = Dur(Backoff(attempt[i]))]
         /\ waits' = [waits EXCEPT ![i] = Append(@, Backoff(attempt[i]))]
         /\ UNCHANGED result
    ELSE /\ pc' = [pc EXCEPT ![i] = "ret"]
         /\ result' = [result EXCEPT ![i] = None]
         /\ UNCHANGED <<timer, waits>>

\* Variant of Retry: no test of line 50, the sleep follows every attempt.
RetryWaitsAfterLast(i) ==
    IF attempt[i] < max_retries - 1
    THEN /\ pc' = [pc EXCEPT ![i] = "backoff"]
         /\ timer' = [timer EXCEPT ![i] = Dur(Backoff(attempt[i]))]
         /\ waits' = [waits EXCEPT ![i] = Append(@, Backoff(attempt[i]))]
         /\ UNCHANGED result
    ELSE /\ pc' = [pc EXCEPT ![i] = "ret"]
         /\ result' = [result EXCEPT ![i] = None]
         /\ waits' = [waits EXCEPT ![i] = Append(@, Backoff(attempt[i]))]
         /\ UNCHANGED timer

\* lines 50-51 and 38, after the Timeout of lines 44-45: sleep 2 ** attempt
\* unless this was the last attempt; then the next attempt, or the loop
\* has ended and line 53 returns None.
Retry(i) ==
    IF attempt[i] < max_retries - 1
    THEN /\ pc' = [pc EXCEPT ![i] = "backoff"]
         /\ timer' = [timer EXCEPT ![i] = Dur(Backoff(attempt[i]))]
         /\ waits' = [waits EXCEPT ![i] = Append(@, Backoff(attempt[i]))]
         /\ UNCHANGED result
    ELSE /\ pc' = [pc EXCEPT ![i] = "ret"]
         /\ result' = [result EXCEPT ![i] = None]
         /\ UNCHANGED <<timer, waits>>

\* lines 44-45: requests.exceptions.Timeout, once the timeout has run out.
TransportTimeout(i) ==
    /\ Running(i) /\ pc[i] = "get" /\ net[i] = "up" /\ timer[i] = 0
    /\ timeouts' = [timeouts EXCEPT ![i] = @ + 1]
    /\ Retry(i)
    /\ UNCHANGED <<stop_event, thread, loops, last_start, news_queue, pushed,
                   attempt, news_data, left, calls, hard, served>>

\* line 51 returns: line 38 takes the next attempt, line 41 calls again.
BackoffDone(i) ==
    /\ Running(i) /\ pc[i] = "backoff" /\ timer[i] = 0
    /\ attempt' = [attempt EXCEPT ![i] = @ + 1]
    /\ calls' = [calls EXCEPT ![i] = @ + 1]
    /\ pc' = [pc EXCEPT ![i] = "get"]
    /\ timer' = [timer EXCEPT ![i] = Dur(DefaultTimeout)]
    /\ UNCHANGED <<stop_event, thread, loops, last_start, news_queue, pushed,
                   result, news_data, left, timeouts, hard, served, waits>>

\* Variant of HardFailure: no break, the failure is retried like a timeout.
HardFailureRetried(i) ==
    /\ Retry(i)
    /\ UNCHANGED <<attempt, calls>>

\* Variant of HardFailure: no raise_for_status, the error response's body
\* is returned as content.
HardFailureAsContent(i) ==
    /\ pc' = [pc EXCEPT ![i] = "ret"]
    /\ result' = [result EXCEPT ![i] = Text(<<ItemT1>>)]
    /\ timer' = [timer EXCEPT ![i] = 0]
    /\ UNCHANGED <<attempt, calls, waits>>

\* lines 46-48, 53: any other RequestException (connection error, DNS
\* failure, the HTTPError of raise_for_status): break, return None.
HardFailure(i) ==
    /\ pc' = [pc EXCEPT ![i] = "ret"]
    /\ result' = [result EXCEPT ![i] = None]
    /\ timer' = [timer EXCEPT ![i] = 0]
    /\ UNCHANGED <<attempt, calls, waits>>

TransportError(i) ==
    /\ Running(i) /\ pc[i] = "get"
    /\ hard' = [hard EXCEPT ![i] = TRUE]
    /\ HardFailure(i)
    /\ UNCHANGED <<stop_event, thread, loops, last_start, news_queue, pushed,
                   news_data, left, timeouts, served>>

\* Variant of CycleError: no handler, the exception ends the thread.
CycleErrorEndsThread(i) ==
    /\ pc' = [pc EXCEPT ![i] = "exit"]
    /\ timer' = [timer EXCEPT ![i] = 0]
    /\ thread' = [thread EXCEPT ![i] = "dead"]
    /\ loops' = [loops EXCEPT ![i] = @ - 1]

\* lines 255-257: the handler of scrape_news: log, time.sleep(5), then the
\* next iteration of the while loop.
CycleError(i) ==
    /\ pc' = [pc EXCEPT ![i] = "pause"]
    /\ timer' = [timer EXCEPT ![i] = Dur(ErrorPause)]
    /\ UNCHANGED <<thread, loops>>

\* An exception that is no RequestException escapes fetch (line 242).
TransportRaise(i) ==
    /\ Running(i) /\ pc[i] = "get" /\ net[i] = "up"
    /\ CycleError(i)
    /\ ClearLog(i)
    /\ UNCHANGED <<stop_event, last_start, news_queue, pushed, attempt,
                   result, news_data, left>>

\* line 257 returns.
PauseDone(i) ==
    /\ Running(i) /\ pc[i] = "pause" /\ timer[i] = 0
    /\ pc' = [pc EXCEPT ![i] = "loop"]
    /\ UNCHANGED <<stop_event, thread, loops, last_start, news_queue, pushed,
                   attempt, result, news_data, left, timer, fetchLog>>

\* lines 242-245: html_content = self.fetch(); if html_content: parse it
\* and iterate over news_data; otherwise go on to the interval loop.
FetchReturn(i) ==
    /\ Running(i) /\ pc[i] = "ret"
    /\ IF ~result[i].none /\ result[i].html # <<>>
       THEN /\ news_data' = [news_data EXCEPT ![i] = parse(result[i].html)]
            /\ pc' = [pc EXCEPT ![i] = "for"]
            /\ UNCHANGED left
       ELSE /\ pc' = [pc EXCEPT ![i] = "ival"]
            /\ left' = [left EXCEPT ![i] = interval[i]]
            /\ UNCHANGED news_data
    /\ result' = [result EXCEPT ![i] = None]
    /\ ClearLog(i)
    /\ UNCHANGED <<stop_event, thread, loops, last_start, news_queue, pushed,
                   attempt, timer>>

\* Variant of PushCheck: every item is put, the stop event is not read.
PushCheckUnconditional(i) ==
    /\ Running(i) /\ pc[i] = "for"
    /\ IF news_data[i] = <<>>
       THEN /\ pc' = [pc EXCEPT ![i] = "ival"]
            /\ left' = [left EXCEPT ![i] = interval[i]]
       ELSE /\ pc' = [pc EXCEPT ![i] = "put"]
            /\ UNCHANGED left
    /\ UNCHANGED <<stop_event, thread, loops, last_start, news_queue, pushed,
                   attempt, result, news_data, timer, fetchLog>>

\* lines 245-246: the next news_item; if not self.stop_event.is_set().
\* After the last item, line 250 begins the interval loop.
PushCheck(i) ==
    /\ Running(i) /\ pc[i] = "for"
    /\ IF news_data[i] = <<>>
       THEN /\ pc' = [pc EXCEPT ![i] = "ival"]
            /\ left' = [left EXCEPT ![i] = interval[i]]
            /\ UNCHANGED news_data
       ELSE IF stop_event[i]
       THEN /\ news_data' = [news_data EXCEPT ![i] = Tail(@)]
            /\ UNCHANGED <<pc, left>>
       ELSE /\ pc' = [pc EXCEPT ![i] = "put"]
            /\ UNCHANGED <<news_data, left>>
    /\ UNCHANGED <<stop_event, thread, loops, last_start, news_queue, pushed,
                   attempt, result, timer, fetchLog>>

\* seq with t recorded at its end, unless seq holds t already.
Remember(seq, t) ==
    IF \E k \in 1..Len(seq) : seq[k] = t THEN seq ELSE Append(seq, t)

\* Variant of PushPut: news_queue a class attribute, one Queue for all.
PushPutShared(i) ==
    /\ Running(i) /\ pc[i] = "put"
    /\ news_queue' = [news_queue EXCEPT ![1] = Append(@, Head(news_data[i]))]
    /\ pushed' = [pushed EXCEPT
                      ![i] = Remember(@, news_tuple(Head(news_data[i])))]
    /\ news_data' = [news_data EXCEPT ![i] = Tail(@)]
    /\ pc' = [pc EXCEPT ![i] = "for"]
    /\ UNCHANGED <<stop_event, thread, loops, last_start, attempt, result,
                   left, timer, fetchLog>>

\* line 247: self.news_queue.put(news_item).
PushPut(i) ==
    /\ Running(i) /\ pc[i] = "put"
    /\ news_queue' = [news_queue EXCEPT ![i] = Append(@, Head(news_data[i]))]
    /\ pushed' = [pushed EXCEPT ![i] = Remember(@, news_tuple(Head(news_data[i])))]
    /\ news_data' = [news_data EXCEPT ![i] = Tail(@)]
    /\ pc' = [pc EXCEPT ![i] = "for"]
    /\ UNCHANGED <<stop_event, thread, loops, last_start, attempt, result,
                   left, timer, fetchLog>>

\* Variant of IntervalCheck: time.sleep(interval), no test of the event.
IntervalCheckWholeInterval(i) ==
    /\ Running(i) /\ pc[i] = "ival"
    /\ IF left[i] = 0
       THEN /\ pc' = [pc EXCEPT ![i] = "loop"]
            /\ UNCHANGED timer
       ELSE /\ pc' = [pc EXCEPT ![i] = "sleep"]
            /\ timer' = [timer EXCEPT ![i] = Dur(SleepStep)]
    /\ UNCHANGED <<stop_event, thread, loops, last_start, news_queue, pushed,
                   attempt, result, news_data, left, fetchLog>>

\* lines 250-252: for _ in range(interval): break if the stop event is
\* set; after the loop, back to line 240.
IntervalCheck(i) ==
    /\ Running(i) /\ pc[i] = "ival"
    /\ IF left[i] = 0 \/ stop_event[i]
       THEN /\ pc' = [pc EXCEPT ![i] = "loop"]
            /\ left' = [left EXCEPT ![i] = 0]
            /\ UNCHANGED timer
       ELSE /\ pc' = [pc EXCEPT ![i] = "sleep"]
            /\ timer' = [timer EXCEPT ![i] = Dur(SleepStep)]
            /\ UNCHANGED left
    /\ UNCHANGED <<stop_event, thread, loops, last_start, news_queue, pushed,
                   attempt, result, news_data, fetchLog>>

\* line 253: time.sleep(1) returns.
IntervalSleep(i) ==
    /\ Running(i) /\ pc[i] = "sleep" /\ timer[i] = 0
    /\ left' = [left EXCEPT ![i] = @ - 1]
    /\ pc' = [pc EXCEPT ![i] = "ival"]
    /\ UNCHANGED <<stop_event, thread, loops, last_start, news_queue, pushed,
                   attempt, result, news_data, timer, fetchLog>>

\* A step of the loop thread of scraper i.
Poller(i) ==
    /\ \/ LoopCheck(i)
       \/ \E html \in web[i] : TransportOk(i, html)
       \/ TransportTimeout(i)
       \/ BackoffDone(i)
       \/ TransportError(i)
       \/ TransportRaise(i)
       \/ PauseDone(i)
       \/ FetchReturn(i)
       \/ PushCheck(i)
       \/ PushPut(i)
       \/ IntervalCheck(i)
       \/ IntervalSleep(i)
    /\ sinceStop' = [sinceStop EXCEPT ![i] = IF thread'[i] = "alive" THEN @ ELSE 0]
    /\ UNCHANGED <<configVars, ctorVars, mainVars>>

(* --------------- NewsScraping.start_thread / stop_thread -------------- *)
\* The scraper after i in the scrapers list, 0 after the last one.
NextScraper(i) ==
    IF \E j \in scrapers : j > i
    THEN CHOOSE j \in scrapers : j > i /\ \A k \in scrapers : k > i => j <= k
    ELSE 0

\* Variant of start_thread: no is_alive check.
start_thread_unchecked(i) ==
    /\ stop_event' = [stop_event EXCEPT ![i] = FALSE]
    /\ thread' = [thread EXCEPT ![i] = "alive"]
    /\ loops' = [loops EXCEPT ![i] = @ + 1]
    /\ pc' = [pc EXCEPT ![i] = "loop"]
    /\ last_start' = [last_start EXCEPT ![i] = "launched"]
    /\ sinceStop' = [sinceStop EXCEPT ![i] = 0]

\* Variant of start_thread: returns early only while the stop event is
\* clear; after a stop_thread call a thread is launched in any case.
start_thread_after_stop(i) ==
    IF thread[i] = "alive" /\ ~stop_event[i]
    THEN /\ last_start' = [last_start EXCEPT ![i] = "already"]
         /\ UNCHANGED <<stop_event, thread, loops, pc, sinceStop>>
    ELSE /\ stop_event' = [stop_event EXCEPT ![i] = FALSE]
         /\ thread' = [thread EXCEPT ![i] = "alive"]
         /\ loops' = [loops EXCEPT ![i] = @ + 1]
         /\ pc' = [pc EXCEPT ![i] = "loop"]
         /\ last_start' = [last_start EXCEPT ![i] = "launched"]
         /\ sinceStop' = [sinceStop EXCEPT ![i] = 0]

\* lines 261-267: return if self.thread is alive; else clear the stop
\* event, create the thread and start it (it begins at line 240).
start_thread(i) ==
    IF thread[i] = "alive"
    THEN /\ last_start' = [last_start EXCEPT ![i] = "already"]
         /\ UNCHANGED <<stop_event, thread, loops, pc, sinceStop>>
    ELSE /\ stop_event' = [stop_event EXCEPT ![i] = FALSE]
         /\ thread' = [thread EXCEPT ![i] = "alive"]
         /\ loops' = [loops EXCEPT ![i] = @ + 1]
         /\ pc' = [pc EXCEPT ![i] = "loop"]
         /\ last_start' = [last_start EXCEPT ![i] = "launched"]
         /\ sinceStop' = [sinceStop EXCEPT ![i] = 0]

\* lines 272-274: set the stop event; if self.thread: join(timeout=5).
stop_thread(i) ==
    /\ stop_event' = [stop_event EXCEPT ![i] = TRUE]
    /\ stopping' = IF thread[i] = "none" THEN 0 ELSE i
    /\ jwait' = 0

\* Variant of JoinExpired: join() without a timeout.
JoinNeverExpires == FALSE

\* line 274: join(timeout=5) gives up once the timeout has run out.
JoinExpired == ~timed \/ jwait >= JoinTimeout

\* line 274 returns: the thread has ended, or the timeout has run out.
JoinDone == thread[stopping] # "alive" \/ JoinExpired

\* lines 274-277: join returns, stop_thread logs and returns.
JoinReturn ==
    /\ stopping # 0 /\ JoinDone
    /\ stopping' = 0
    /\ jwait' = 0
    /\ UNCHANGED <<configVars, ctorVars, pollerVars, mpc, aggVars, hpc, hidx,
                   signals, mtimer, sinceStop, passTime>>

(* ----------------------- NewsScraping.__init__ ------------------------ *)
\* Variant of Supported: the factory's last branch returns a parser too.
SupportedByDefault(url) == TRUE

\* lines 225-232: _create_parser knows the url, or raises ValueError.
Supported(url) == \E k \in 1..Len(Configs) : Configs[k] = url

\* lines 208-221: what NewsScraping(url, ival) gives: the scraper, or the
\* message of the ValueError raised by line 209 or by _create_parser.
Construct(url, ival) ==
    IF url = "" \/ ival <= 0 THEN "Invalid parameters"
    ELSE IF ~Supported(url) THEN "Unsupported news site"
    ELSE "NewsScraping"

(* ---------------- the caller of the scrapers (__main__) --------------- *)
\* lines 321-327: the next entry of configs: NewsScraping(url, interval),
\* appended to scrapers; a ValueError is logged and the entry skipped.
\* Every scraper appended before has been started (line 325).
MainConstruct(i) ==
    /\ mpc = "idle" /\ i \in configs /\ built[i] = "no"
    /\ \A j \in configs : j < i =>
           (built[j] # "no" /\ (j \in scrapers => thread[j] # "none"))
    /\ built' = [built EXCEPT ![i] = Construct(news_site[i], interval[i])]
    /\ scrapers' = IF built'[i] = "NewsScraping" THEN scrapers \cup {i}
                   ELSE scrapers
    /\ UNCHANGED <<timed, max_retries, interval, web, net, configs, news_site,
                   args, made, item, pollerVars, mainVars, sinceStop>>

\* Calls made on a scraper by code that holds it: start_thread().
StartThread(i) ==
    /\ mpc = "idle" /\ stopping = 0 /\ i \in scrapers
    /\ start_thread(i)
    /\ UNCHANGED <<configVars, ctorVars, news_queue, pushed, attempt, result,
                   news_data, left, timer, fetchLog, mainVars>>

\* ... and stop_thread().
StopThread(i) ==
    /\ mpc = "idle" /\ stopping = 0 /\ i \in scrapers
    /\ stop_thread(i)
    /\ UNCHANGED <<configVars, ctorVars, thread, loops, last_start,
                   news_queue, pushed, loopVars, mpc, aggVars, hpc, hidx,
                   signals, mtimer, sinceStop, passTime>>

\* lines 321-325: for url, interval in configs: ... scraper.start_thread(),
\* one scraper after the other in the order of configs.
MainStart(i) ==
    /\ mpc = "idle" /\ i \in scrapers
    /\ thread[i] = "none" /\ \A j \in scrapers : j < i => thread[j] # "none"
    /\ start_thread(i)
    /\ UNCHANGED <<configVars, ctorVars, news_queue, pushed, attempt, result,
                   news_data, left, timer, fetchLog, mainVars>>

\* lines 339-340, 282: if scrapers: main_thread(scrapers); seen_news = set().
EnterMain ==
    /\ mpc = "idle" /\ scrapers # {}
    /\ \A j \in configs : built[j] # "no"
    /\ \A j \in scrapers : thread[j] # "none"
    /\ mpc' = "check"
    /\ seen_news' = {}
    /\ UNCHANGED <<configVars, ctorVars, pollerVars, sidx, news, sink, fwd,
                   fidx, hpc, hidx, signals, stopping, jwait, mtimer,
                   sinceStop, passTime>>

(* ------------------------------ NewsItem ------------------------------ *)
\* lines 18-25: NewsItem(name, title, desc, timestamp), called by code that
\* holds the four strings: the fields are set, or ValueError is raised and
\* no object exists.
NewItem ==
    /\ made = "none"
    /\ IF NewsItemValid(args)
       THEN made' = "NewsItem" /\ item' = <<args>>
       ELSE made' = "ValueError" /\ item' = <<>>
    /\ UNCHANGED <<configVars, built, args, pollerVars, mainVars, sinceStop>>

(* ----------------------------- main_thread ---------------------------- *)
InMain(loc) == mpc = loc /\ hpc = "off" /\ stopping = 0

\* The for loop of line 286 moves on from scraper i: the next scraper's
\* queue, or after the last one time.sleep(1) at line 301.
NextQueue(i) ==
    IF NextScraper(i) = 0
    THEN /\ mpc' = "sleep"
         /\ mtimer' = Dur(AggTick)
         /\ sidx' = 0
    ELSE /\ mpc' = "empty"
         /\ sidx' = NextScraper(i)
         /\ UNCHANGED mtimer

\* Variant of AggCheck: while True.
AggCheckForever ==
    /\ InMain("check")
    /\ mpc' = "empty"
    /\ sidx' = NextScraper(0)
    /\ UNCHANGED <<configVars, ctorVars, pollerVars, news, seen_news, sink,
                   fwd, fidx, hpc, hidx, signals, stopping, jwait, mtimer,
                   sinceStop, passTime>>

\* line 285: while not all(scraper.stop_event.is_set() ...).
AggCheck ==
    /\ InMain("check")
    /\ IF \A i \in scrapers : stop_event[i]
       THEN /\ mpc' = "finally"
            /\ fidx' = NextScraper(0)
            /\ UNCHANGED sidx
       ELSE /\ mpc' = "empty"
            /\ sidx' = NextScraper(0)
            /\ UNCHANGED fidx
    /\ UNCHANGED <<configVars, ctorVars, pollerVars, news, seen_news, sink,
                   fwd, hpc, hidx, signals, stopping, jwait, mtimer,
                   sinceStop, passTime>>

\* line 287: while not scraper.news_queue.empty().
AggEmpty ==
    /\ InMain("empty")
    /\ IF news_queue[sidx] = <<>>
       THEN NextQueue(sidx)
       ELSE /\ mpc' = "get"
            /\ UNCHANGED <<sidx, mtimer>>
    /\ UNCHANGED <<configVars, ctorVars, pollerVars, news, seen_news, sink,
                   fwd, fidx, hpc, hidx, signals, stopping, jwait, sinceStop,
                   passTime>>

\* Variant of AggGet: the queue is a LifoQueue.
AggGetLast ==
    /\ InMain("get")
    /\ news' = <<news_queue[sidx][Len(news_queue[sidx])]>>
    /\ news_queue' = [news_queue EXCEPT
                         ![sidx] = SubSeq(@, 1, Len(@) - 1)]
    /\ mpc' = "test"
    /\ UNCHANGED <<configVars, ctorVars, pushed, stop_event, thread, loops,
                   last_start, loopVars, sidx, seen_news, sink, fwd, fidx,
                   hpc, hidx, signals, stopping, jwait, mtimer, sinceStop,
                   passTime>>

\* lines 289-290: news = scraper.news_queue.get_nowait(); the main thread
\* is the only consumer, so the queue found non-empty still is.
AggGet ==
    /\ InMain("get")
    /\ news' = <<Head(news_queue[sidx])>>
    /\ news_queue' = [news_queue EXCEPT ![sidx] = Tail(@)]
    /\ mpc' = "test"
    /\ UNCHANGED <<configVars, ctorVars, pushed, stop_event, thread, loops,
                   last_start, loopVars, sidx, seen_news, sink, fwd, fidx,
                   hpc, hidx, signals, stopping, jwait, mtimer, sinceStop,
                   passTime>>

\* Variant of Novel: the set tested for emptiness, not for membership.
NovelWhileEmpty(t) == seen_news = {}

\* line 292: whether the item is printed and added to seen_news.
Novel(t) == t \notin seen_news

\* lines 292-297: if news_tuple not in seen_news: print the item.
AggPrint ==
    /\ InMain("test")
    /\ IF Novel(news_tuple(news[1]))
       THEN /\ sink' = Append(sink, news_tuple(news[1]))
            /\ fwd' = [fwd EXCEPT ![sidx] = Append(@, news_tuple(news[1]))]
            /\ mpc' = "add"
            /\ UNCHANGED news
       ELSE /\ mpc' = "empty"
            /\ news' = <<>>
            /\ UNCHANGED <<sink, fwd>>
    /\ UNCHANGED <<configVars, ctorVars, pollerVars, sidx, seen_news, fidx,
                   hpc, hidx, signals, stopping, jwait, mtimer, sinceStop,
                   passTime>>

\* line 298: seen_news.add(news_tuple).
AggAdd ==
    /\ InMain("add")
    /\ seen_news' = seen_news \cup {news_tuple(news[1])}
    /\ news' = <<>>
    /\ mpc' = "empty"
    /\ UNCHANGED <<configVars, ctorVars, pollerVars, sidx, sink, fwd, fidx,
                   hpc, hidx, signals, stopping, jwait, mtimer, sinceStop,
                   passTime>>

\* line 301 returns.
AggSleep ==
    /\ InMain("sleep") /\ mtimer = 0
    /\ mpc' = "check"
    /\ UNCHANGED <<configVars, ctorVars, pollerVars, aggVars, hpc, hidx,
                   signals, stopping, jwait, mtimer, sinceStop, passTime>>

\* lines 306-308: for scraper in news_scrapers: scraper.stop_thread().
FinallyStop ==
    /\ InMain("finally") /\ fidx # 0
    /\ stop_thread(fidx)
    /\ fidx' = NextScraper(fidx)
    /\ UNCHANGED <<configVars, ctorVars, thread, loops, last_start,
                   news_queue, pushed, loopVars, mpc, sidx, news, seen_news,
                   sink, fwd, hpc, hidx, signals, mtimer, sinceStop,
                   passTime>>

\* main_thread returns (or SystemExit leaves it) and the process ends.
FinallyDone ==
    /\ InMain("finally") /\ fidx = 0
    /\ mpc' = "done"
    /\ UNCHANGED <<configVars, ctorVars, pollerVars, aggVars, hpc, hidx,
                   signals, stopping, jwait, mtimer, sinceStop, passTime>>

(* ------------------------ signal_handler (SIGINT) --------------------- *)
\* The main thread is inside the try block of lines 288-298.
InInnerTry == mpc \in {"get", "test", "add"}

\* SIGINT arrives while the main thread runs main_thread's loop: the
\* handler of lines 330-334 starts on the main thread.
Interrupt ==
    /\ mpc \in {"check", "empty", "get", "test", "add", "sleep"}
    /\ hpc = "off" /\ signals < MaxSignals
    /\ hpc' = "run"
    /\ hidx' = NextScraper(0)
    /\ signals' = signals + 1
    /\ passTime' = 0
    /\ UNCHANGED <<configVars, ctorVars, pollerVars, mpc, aggVars, stopping,
                   jwait, mtimer, sinceStop>>

\* Variant of HandlerStop: the loop is left after its first scraper.
HandlerStopFirstOnly ==
    /\ hpc = "run" /\ stopping = 0 /\ hidx # 0
    /\ stop_thread(hidx)
    /\ hidx' = 0
    /\ UNCHANGED <<configVars, ctorVars, thread, loops, last_start,
                   news_queue, pushed, loopVars, mpc, aggVars, hpc, signals,
                   mtimer, sinceStop, passTime>>

\* lines 332-333: for scraper in scrapers: scraper.stop_thread().
HandlerStop ==
    /\ hpc = "run" /\ stopping = 0 /\ hidx # 0
    /\ stop_thread(hidx)
    /\ hidx' = NextScraper(hidx)
    /\ UNCHANGED <<configVars, ctorVars, thread, loops, last_start,
                   news_queue, pushed, loopVars, mpc, aggVars, hpc, signals,
                   mtimer, sinceStop, passTime>>

\* line 334: exit(0) raises SystemExit where the main thread was
\* interrupted.  Inside the try of lines 288-298 the bare except of line
\* 299 catches it and breaks out of the while loop of line 287; anywhere
\* else it leaves the loop of line 285 and the finally block runs.
HandlerExit ==
    /\ hpc = "run" /\ stopping = 0 /\ hidx = 0
    /\ hpc' = "off"
    /\ passTime' = 0
    /\ IF InInnerTry
       THEN /\ NextQueue(sidx)
            /\ news' = <<>>
            /\ UNCHANGED fidx
       ELSE /\ mpc' = "finally"
            /\ fidx' = NextScraper(0)
            /\ mtimer' = 0
            /\ UNCHANGED <<sidx, news>>
    /\ UNCHANGED <<configVars, ctorVars, pollerVars, seen_news, sink, fwd,
                   hidx, signals, stopping, jwait, sinceStop>>

(* -------------------------------- time -------------------------------- *)
\* The loop thread of scraper i is inside a blocking call that has time left.
Blocked(i) == pc[i] \in {"get", "backoff", "sleep", "pause"} /\ timer[i] > 0

\* The main thread cannot take a step now.
MainBlocked ==
    \/ stopping # 0 /\ ~JoinDone
    \/ stopping = 0 /\ hpc = "off" /\ mpc \in {"idle", "done"}
    \/ stopping = 0 /\ hpc = "off" /\ mpc = "sleep" /\ mtimer > 0

\* The main thread is in the handler's loop of stop_thread calls (lines
\* 332-333) or in that of the finally block (lines 306-308).
InStopAll == hpc = "run" \/ mpc = "finally"

\* One second passes: only when no thread has a step to take before it.
Tick ==
    /\ timed
    /\ MainBlocked
    /\ \A i \in scrapers : Running(i) => Blocked(i)
    /\ \E i \in scrapers : Running(i)
    /\ timer' = [i \in ScraperIds |-> IF Running(i) THEN timer[i] - 1 ELSE timer[i]]
    /\ jwait' = IF stopping # 0 THEN jwait + 1 ELSE jwait
    /\ mtimer' = IF mtimer > 0 THEN mtimer - 1 ELSE 0
    /\ passTime' = IF InStopAll THEN passTime + 1 ELSE passTime
    /\ sinceStop' = [i \in ScraperIds |->
                        IF Running(i) /\ stop_event[i]
                        THEN sinceStop[i] + 1 ELSE sinceStop[i]]
    /\ UNCHANGED <<configVars, ctorVars, stop_event, thread, loops,
                   last_start, news_queue, pushed, pc, attempt, result,
                   news_data, left, fetchLog, mpc, aggVars, hpc, hidx,
                   signals, stopping>>

(* ------------------------- initial states ----------------------------- *)
\* After construction (NewsScraping.__init__ lines 211-221, HTTPClient
\* lines 32-33): no thread, stop event clear, queue empty.
InitScrapers ==
    /\ stop_event = [i \in ScraperIds |-> FALSE]
    /\ thread = [i \in ScraperIds |-> "none"]
    /\ news_queue = [i \in ScraperIds |-> <<>>]
    /\ pc = [i \in ScraperIds |-> "none"]
    /\ attempt = [i \in ScraperIds |-> 0]
    /\ result = [i \in ScraperIds |-> None]
    /\ news_data = [i \in ScraperIds |-> <<>>]
    /\ left = [i \in ScraperIds |-> 0]
    /\ timer = [i \in ScraperIds |-> 0]
    /\ loops = [i \in ScraperIds |-> 0]
    /\ last_start = [i \in ScraperIds |-> "never"]
    /\ calls = [i \in ScraperIds |-> NoLog.calls]
    /\ timeouts = [i \in ScraperIds |-> NoLog.timeouts]
    /\ hard = [i \in ScraperIds |-> NoLog.hard]
    /\ served = [i \in ScraperIds |-> NoLog.served]
    /\ waits = [i \in ScraperIds |-> NoLog.waits]
    /\ sinceStop = [i \in ScraperIds |-> 0]
    /\ pushed = [i \in ScraperIds |-> <<>>]

InitMain ==
    /\ mpc = "idle" /\ sidx = 0 /\ news = <<>> /\ seen_news = {}
    /\ sink = <<>> /\ fwd = [i \in ScraperIds |-> <<>>] /\ fidx = 0 /\ hpc = "off" /\ hidx = 0 /\ signals = 0
    /\ stopping = 0 /\ jwait = 0 /\ mtimer = 0 /\ passTime = 0

\* Every entry of configs has given a scraper; no NewsItem(...) call yet.
InitBuilt ==
    /\ configs = scrapers
    /\ news_site = [i \in ScraperIds |-> SiteOf(i)]
    /\ built = [i \in ScraperIds |-> IF i \in scrapers THEN "NewsScraping" ELSE "no"]
    /\ args = NoArgs /\ made = "none" /\ item = <<>>

\* The program: every configured scraper, default client, run untimed.
Init ==
    /\ timed = FALSE
    /\ scrapers = ScraperIds
    /\ max_retries = DefaultMaxRetries
    /\ interval = [i \in ScraperIds |-> Interval]
    /\ web = [i \in ScraperIds |-> Headline]
    /\ net = [i \in ScraperIds |-> "up"]
    /\ InitScrapers /\ InitMain /\ InitBuilt

Next ==
    \/ \E i \in scrapers : Poller(i)
    \/ \E i \in scrapers : MainStart(i)
    \/ EnterMain
    \/ JoinReturn
    \/ AggCheck \/ AggEmpty \/ AggGet \/ AggPrint \/ AggAdd \/ AggSleep
    \/ FinallyStop \/ FinallyDone
    \/ Interrupt \/ HandlerStop \/ HandlerExit

Spec == Init /\ [][Next]_vars

\* The program with a single configured site, which may be unreachable.
InitOne ==
    /\ timed = FALSE
    /\ scrapers = {1}
    /\ max_retries = DefaultMaxRetries
    /\ \E n \in 1..MaxInterval : interval = [i \in ScraperIds |-> n]
    /\ web = [i \in ScraperIds |-> FrontPage]
    /\ \E n \in {"up", "refused"} : net = [i \in ScraperIds |-> n]
    /\ InitScrapers /\ InitMain /\ InitBuilt

SpecOne == InitOne /\ [][Next]_vars

\* Code that holds one scraper and calls start_thread and stop_thread on
\* it in any order; its client built with any max_retries >= 1.
InitCalls ==
    /\ timed = FALSE
    /\ scrapers = {1}
    /\ max_retries \in 1..MaxRetriesArg
    /\ interval = [i \in ScraperIds |-> Interval]
    /\ web = [i \in ScraperIds |-> FrontPage]
    /\ net = [i \in ScraperIds |-> "up"]
    /\ InitScrapers /\ InitMain /\ InitBuilt

NextCalls ==
    \/ \E i \in scrapers : Poller(i)
    \/ \E i \in scrapers : StartThread(i)
    \/ \E i \in scrapers : StopThread(i)
    \/ JoinReturn

SpecCalls == InitCalls /\ [][NextCalls]_vars

\* One scraper, started and stopped by its holder, with time counted.
InitTimed ==
    /\ timed = TRUE
    /\ scrapers = {1}
    /\ max_retries = DefaultMaxRetries
    /\ \E n \in 1..MaxInterval : interval = [i \in ScraperIds |-> n]
    /\ web = [i \in ScraperIds |-> Headline]
    /\ net = [i \in ScraperIds |-> "up"]
    /\ InitScrapers /\ InitMain /\ InitBuilt

NextTimed ==
    \/ \E i \in scrapers : Poller(i)
    \/ \E i \in scrapers : StartThread(i)
    \/ \E i \in scrapers : StopThread(i)
    \/ JoinReturn
    \/ Tick

SpecTimed == InitTimed /\ [][NextTimed]_vars

\* Two scrapers whose sites serve overlapping items, and main_thread
\* draining their queues; no signal is delivered.
InitDrain ==
    /\ timed = FALSE
    /\ scrapers = {1, 2}
    /\ max_retries = DefaultMaxRetries
    /\ interval = [i \in ScraperIds |-> Interval]
    /\ web = [i \in ScraperIds |-> IF i = 1 THEN TopStories ELSE BackPage]
    /\ net = [i \in ScraperIds |-> "up"]
    /\ InitScrapers /\ InitMain /\ InitBuilt

NextDrain ==
    \/ \E i \in scrapers : Poller(i)
    \/ \E i \in scrapers : MainStart(i)
    \/ EnterMain
    \/ AggCheck \/ AggEmpty \/ AggGet \/ AggPrint \/ AggAdd \/ AggSleep

SpecDrain == InitDrain /\ [][NextDrain]_vars

\* The program with one site, undisturbed by signals, next to code that
\* constructs a NewsItem from four strings of its own.
InitItem ==
    /\ timed = FALSE
    /\ scrapers = {1}
    /\ max_retries = DefaultMaxRetries
    /\ interval = [i \in ScraperIds |-> Interval]
    /\ web = [i \in ScraperIds |-> FrontPage]
    /\ net = [i \in ScraperIds |-> "up"]
    /\ InitScrapers /\ InitMain
    /\ configs = scrapers
    /\ news_site = [i \in ScraperIds |-> SiteOf(i)]
    /\ built = [i \in ScraperIds |-> IF i \in scrapers THEN "NewsScraping" ELSE "no"]
    /\ args \in [name : FieldText, title : FieldText, desc : FieldText,
                 timestamp : FieldText]
    /\ made = "none" /\ item = <<>>

NextItem ==
    \/ NewItem
    \/ \E i \in scrapers : Poller(i)
    \/ \E i \in scrapers : MainStart(i)
    \/ EnterMain
    \/ AggCheck \/ AggEmpty \/ AggGet \/ AggPrint \/ AggAdd \/ AggSleep

SpecItem == InitItem /\ [][NextItem]_vars

\* __main__ over a configs list of two entries, each of which may name a
\* known site, an unknown one or none, with a positive interval or 0.
OtherSite == "https://www.example.com/"

InitConfigs ==
    /\ timed = FALSE
    /\ scrapers = {}
    /\ max_retries = DefaultMaxRetries
    /\ interval \in [ScraperIds -> {0, Interval}]
    /\ web = [i \in ScraperIds |-> Headline]
    /\ net = [i \in ScraperIds |-> "up"]
    /\ InitScrapers /\ InitMain
    /\ configs = {1, 2}
    /\ news_site \in [ScraperIds -> {Configs[1], OtherSite, ""}]
    /\ \A i \in ScraperIds \ configs :
           news_site[i] = Configs[1] /\ interval[i] = Interval
    /\ built = [i \in ScraperIds |-> "no"]
    /\ args = NoArgs /\ made = "none" /\ item = <<>>

NextConfigs ==
    \/ \E i \in configs : MainConstruct(i)
    \/ \E i \in scrapers : MainStart(i)
    \/ \E i \in scrapers : Poller(i)
    \/ EnterMain

SpecConfigs == InitConfigs /\ [][NextConfigs]_vars

\* The program with two sites, one of them unreachable, with time counted.
InitStopAll ==
    /\ timed = TRUE
    /\ scrapers = {1, 2}
    /\ max_retries = DefaultMaxRetries
    /\ interval = [i \in ScraperIds |-> Interval]
    /\ web = [i \in ScraperIds |-> Headline]
    /\ net = [i \in ScraperIds |-> IF i = 1 THEN "up" ELSE "refused"]
    /\ InitScrapers /\ InitMain /\ InitBuilt

NextStopAll == Next \/ Tick

SpecStopAll == InitStopAll /\ [][NextStopAll]_vars

(* ------------------------------ claims -------------------------------- *)

\* C1: every identity tuple is forwarded to the sink (printed) at most
\* once during the process lifetime.
C1_AtMostOneForward ==
    \A a, b \in 1..Len(sink) : sink[a] = sink[b] => a = b

\* The same, as long as no SIGINT has been delivered.
AtMostOneForwardUninterrupted == signals = 0 => C1_AtMostOneForward

\* C2: once main_thread's loop has ended and shutdown is complete, no item
\* that a scraper pushed is left unconsumed in a queue.
C2_NothingLeftAtExit ==
    mpc = "done" => \A i \in scrapers : news_queue[i] = <<>>

\* C3: a fetch whose transport timed out k < max_retries times and then
\* served a page returns that page after k + 1 transport calls and k
\* backoff sleeps of 2^0, ..., 2^(k-1) seconds, in that order.
C3_FetchAfterTimeouts ==
    \A i \in scrapers :
        (pc[i] = "ret" /\ ~result[i].none) =>
            /\ timeouts[i] < max_retries
            /\ served[i] = <<result[i].html>>
            /\ calls[i] = timeouts[i] + 1
            /\ waits[i] = [j \in 1..timeouts[i] |-> 2 ^ (j - 1)]

C3_Witness ==
    \E i \in scrapers :
        pc[i] = "ret" /\ ~result[i].none /\ timeouts[i] = 2 /\ waits[i] = <<1, 2>>

\* C4: a fetch never makes more than max_retries transport calls, and one
\* whose every call timed out returns None after exactly max_retries calls.
C4_AlwaysTimesOut ==
    \A i \in scrapers :
        /\ calls[i] <= max_retries
        /\ (pc[i] = "ret" /\ timeouts[i] = calls[i]) =>
               (result[i].none /\ calls[i] = max_retries)

C4_Witness ==
    \E i \in scrapers :
        /\ pc[i] = "ret" /\ timeouts[i] = calls[i]
        /\ calls[i] = DefaultMaxRetries /\ max_retries = DefaultMaxRetries

\* C5: when a transport call raises a hard failure, after any number of
\* earlier timeouts, fetch returns None at once: no further transport call
\* and no further backoff sleep.
C5_HardFailureAbandons ==
    \A i \in scrapers :
        hard[i] =>
            /\ pc[i] = "ret" /\ result[i].none
            /\ calls[i] = timeouts[i] + 1
            /\ Len(waits[i]) = timeouts[i]

C5_Witness ==
    \E i \in scrapers : hard[i] /\ timeouts[i] >= 1 /\ pc[i] = "ret"

\* C6: stop_thread sets the stop event and its join never waits longer
\* than 5 seconds, whatever the loop thread is doing; a scraper never
\* started is not joined at all.
C6_StopBounded ==
    stopping # 0 =>
        /\ stop_event[stopping]
        /\ thread[stopping] # "none"
        /\ jwait <= JoinTimeout
        /\ jwait = JoinTimeout => ENABLED JoinReturn

C6_Witness ==
    /\ stopping = 1 /\ jwait = JoinTimeout
    /\ thread[1] = "alive" /\ pc[1] = "get"

\* C7: a loop thread whose stop event has been set ends within
\* fetch timeout + 1 seconds.
C7_ExitWithinTimeoutPlusOne ==
    \A i \in scrapers :
        (Running(i) /\ stop_event[i]) => sinceStop[i] <= DefaultTimeout + 1

\* C8: a scraper whose every transport call fails hard never puts an item
\* in its queue, nothing of it is printed, no exception leaves fetch, and
\* its thread stays alive as long as its stop event is clear.
C8_RefusedSiteYieldsNothing ==
    \A i \in scrapers :
        net[i] = "refused" =>
            /\ news_queue[i] = <<>> /\ news_data[i] = <<>>
            /\ pc[i] # "pause"
            /\ (thread[i] # "none" /\ ~stop_event[i]) => thread[i] = "alive"
            /\ (\A j \in scrapers : net[j] = "refused") =>
                   (sink = <<>> /\ seen_news = {} /\ news = <<>>)

C8_Witness ==
    /\ net[1] = "refused" /\ ~stop_event[1]
    /\ pc[1] = "ival" /\ left[1] = 0
    /\ mpc = "sleep"

\* C9: an exception escaping fetch never ends the loop thread: the thread
\* pauses 5 seconds and goes back to the loop's condition; the thread
\* ends only at that condition, with the stop event set.
C9_FailedCycleNeverEndsLoop ==
    [][\A i \in scrapers :
        /\ (thread[i] = "alive" /\ thread'[i] # "alive") =>
               (stop_event[i] /\ pc[i] = "loop")
        /\ (pc[i] # "pause" /\ pc'[i] = "pause") =>
               (thread'[i] = "alive" /\ timer'[i] = ErrorPause)
        /\ (pc[i] = "pause" /\ pc'[i] # "pause") =>
               (thread'[i] = "alive" /\ timer[i] = 0 /\ pc'[i] = "loop")]_vars

C9_Witness ==
    \E i \in scrapers :
        pc[i] = "pause" /\ timer[i] = 0 /\ thread[i] = "alive" /\ ~stop_event[i]

\* C10: start_thread on a scraper whose thread is alive launches nothing
\* and leaves the stop event, the queue and the running loop as they are.
C10_StartIdempotent ==
    [][\A i \in scrapers :
        (StartThread(i) /\ thread[i] = "alive") =>
            /\ UNCHANGED <<stop_event, thread, loops, news_queue, pushed,
                           loopVars>>
            /\ last_start'[i] = "already"]_vars

C10_Witness ==
    \E i \in scrapers :
        /\ last_start[i] = "already" /\ thread[i] = "alive" /\ loops[i] = 1
        /\ pc[i] = "put"


\* The elements of a sequence.
Range(seq) == { seq[k] : k \in 1..Len(seq) }

\* Every queue is empty and main_thread holds no item.
Drained == news = <<>> /\ \A i \in scrapers : news_queue[i] = <<>>

\* C11: whenever everything put so far has been drained, the set of
\* printed tuples is the set of tuples the scrapers have put, whatever the
\* order of the puts and of the drains was.
C11_ForwardedSetIsPushedSet ==
    Drained => Range(sink) = UNION { Range(pushed[i]) : i \in scrapers }

C11_Witness ==
    /\ Drained /\ sink = <<news_tuple(ItemT2), news_tuple(ItemT1)>>
    /\ pushed[1] = <<news_tuple(ItemT1), news_tuple(ItemT2)>>
    /\ pushed[2] = <<news_tuple(ItemT2), news_tuple(ItemT1)>>


\* main_thread is inside the while loop of line 285.
InLoop == mpc \in {"check", "empty", "get", "test", "add", "sleep"}

FourFields(c) == \A f \in {"name", "title", "desc", "timestamp"} : c[f] # ""

\* C13: NewsItem(...) gives an object exactly when all four arguments are
\* non-empty, and raises ValueError leaving no object otherwise; every
\* item in a batch, in a queue, held by main_thread or printed has four
\* non-empty fields.
C13_ItemsHaveFourFields ==
    /\ made = "NewsItem" => (FourFields(args) /\ item = <<args>>)
    /\ made = "ValueError" => (~FourFields(args) /\ item = <<>>)
    /\ \A i \in scrapers :
          /\ \A k \in 1..Len(news_data[i]) : FourFields(news_data[i][k])
          /\ \A k \in 1..Len(news_queue[i]) : FourFields(news_queue[i][k])
    /\ \A k \in 1..Len(news) : FourFields(news[k])
    /\ \A k \in 1..Len(sink) : \A f \in 1..4 : sink[k][f] # ""

C13_Witness ==
    /\ made = "ValueError" /\ args.name = "a" /\ args.title = "b"
    /\ args.desc = "" /\ args.timestamp = "a"
    /\ Len(sink) = 2


\* Entry i of configs names one of the three sites and a positive interval.
ValidEntry(i) ==
    /\ news_site[i] \in { "https://www.liputan6.com/", "https://www.bisnis.com/",
                          "https://www.abc.net.au/news/indonesian" }
    /\ interval[i] > 0

\* C14: NewsScraping(url, interval) gives a scraper exactly for a known url
\* and a positive interval; otherwise it raises, the entry gets no scraper
\* and no thread, and no scraper at all has been started by then.
C14_FailsBeforeAnyStart ==
    [][\A i \in configs :
        (built[i] = "no" /\ built'[i] # "no") =>
            /\ built'[i] = "NewsScraping" <=> ValidEntry(i)
            /\ built'[i] # "NewsScraping" =>
                   /\ i \notin scrapers' /\ thread'[i] = "none"
                   /\ \A j \in ScraperIds : thread[j] = "none"]_vars

\* C14, amended: ... otherwise it raises, and the entry never gets a
\* scraper or a thread; scrapers of earlier entries may be running.
C14_FailsWithoutThread ==
    [][\A i \in configs :
        /\ (built[i] = "no" /\ built'[i] # "no") =>
               (built'[i] = "NewsScraping" <=> ValidEntry(i))
        /\ built'[i] \notin {"no", "NewsScraping"} =>
               /\ i \notin scrapers' /\ thread'[i] = "none"
               /\ loops'[i] = 0 /\ pc'[i] = "none"]_vars

C14_Witness ==
    /\ built[1] = "NewsScraping" /\ built[2] = "Unsupported news site"
    /\ thread[1] = "alive" /\ pc[1] = "put" /\ thread[2] = "none"
    /\ mpc = "check"


C16_NoPutAfterStop ==
    [][\A i \in scrapers :
        stop_event[i] => Len(news_queue'[i]) <= Len(news_queue[i])]_vars

\* C16, amended: with the stop event set, the test of line 246 never lets
\* an item through, so the only item put after the event was set is the one
\* whose test had passed before.
C16_OnlyTestedItemPutAfterStop ==
    [][\A i \in scrapers :
        /\ (stop_event[i] /\ pc[i] = "for") => pc'[i] \in {"for", "ival"}
        /\ (stop_event[i] /\ news_queue'[i] # news_queue[i]) =>
               /\ pc[i] = "put" /\ pc'[i] = "for"
               /\ news_queue'[i] = Append(news_queue[i], Head(news_data[i]))]_vars

C16_Witness ==
    \E i \in scrapers :
        /\ stop_event[i] /\ thread[i] = "alive"
        /\ pc[i] = "for" /\ news_data[i] = <<>>
        /\ news_queue[i] = <<ItemT1>> /\ pushed[i] = <<news_tuple(ItemT1)>>


\* C17: with its stop event set, a loop thread in the interval loop sleeps
\* at most the rest of the running 1-second step, whatever is left of the
\* interval, then goes to the loop's condition and ends there; it starts
\* no fetch.
C17_IntervalSleepInterruptible ==
    [][\A i \in scrapers :
        (Running(i) /\ stop_event[i]) =>
            /\ pc[i] = "sleep" =>
                   (timer[i] <= SleepStep /\ pc'[i] \in {"sleep", "ival"})
            /\ pc[i] = "ival" => pc'[i] \in {"ival", "loop"}
            /\ pc[i] = "loop" => pc'[i] \in {"loop", "exit"}]_vars

C17_Witness ==
    \E i \in scrapers :
        /\ Running(i) /\ stop_event[i] /\ interval[i] = MaxInterval
        /\ pc[i] = "ival" /\ left[i] = MaxInterval - 1 /\ sinceStop[i] = SleepStep


\* The length of the sleep the loop thread of scraper i is in.
WaitLen(i) ==
    IF pc[i] = "backoff" THEN Backoff(attempt[i])
    ELSE IF pc[i] = "pause" THEN ErrorPause
    ELSE SleepStep

\* C18: a stop event set while the loop thread is in a backoff sleep, in
\* the interval sleep or in the pause after an error cuts that sleep
\* short: the sleep goes on for no more than one 1-second step.
C18_WaitsCutShort ==
    \A i \in scrapers :
        (/\ Running(i) /\ stop_event[i]
         /\ pc[i] \in {"backoff", "sleep", "pause"}
         /\ sinceStop[i] <= WaitLen(i) - timer[i]) =>
            sinceStop[i] <= SleepStep


\* The place of t in a sequence that holds it once.
Pos(seq, t) == CHOOSE k \in 1..Len(seq) : seq[k] = t

\* C19: the tuples printed from one scraper's queue are printed in the
\* order in which that scraper first put them.
C19_PerScraperOrderKept ==
    \A i \in scrapers :
        /\ Range(fwd[i]) \subseteq Range(pushed[i])
        /\ \A a, b \in 1..Len(fwd[i]) :
              a < b => Pos(pushed[i], fwd[i][a]) < Pos(pushed[i], fwd[i][b])

C19_Witness ==
    /\ fwd[1] = <<news_tuple(ItemT1), news_tuple(ItemT2)>>
    /\ pushed[1] = fwd[1] /\ pushed[2] = <<news_tuple(ItemT2), news_tuple(ItemT1)>>
    /\ fwd[2] = <<>> /\ Drained


\* C20: seen_news never loses a tuple, and whenever main_thread is done
\* with an item seen_news is the set of the tuples printed so far.
C20_SeenIsWhatWasPrinted ==
    [][/\ mpc # "idle" => seen_news \subseteq seen_news'
       /\ mpc' # "add" => seen_news' = Range(sink')]_vars


\* What the loop thread of scraper i holds: its position and its locals.
Local(i) ==
    <<pc[i], attempt[i], result[i], news_data[i], left[i], timer[i]>>

\* The step is one of the running loop thread of scraper i.
LoopStep(i) == thread[i] = "alive" /\ Local(i)' # Local(i)

\* C21: a step of the loop thread of scraper i leaves the queue, the stop
\* event and the loop of every other scraper, every stop event and
\* seen_news as they are; a queue grows only by a put of its own scraper,
\* shrinks only by main_thread's get, and seen_news changes only in
\* main_thread.
C21_PollersShareNothing ==
    [][/\ \A i \in scrapers :
            LoopStep(i) =>
                /\ \A j \in scrapers \ {i} :
                       /\ news_queue'[j] = news_queue[j]
                       /\ Local(j)' = Local(j) /\ thread'[j] = thread[j]
                /\ stop_event' = stop_event
                /\ Len(news_queue'[i]) >= Len(news_queue[i])
                /\ UNCHANGED <<seen_news, sink, news, mpc>>
       /\ \A i \in scrapers :
            /\ Len(news_queue'[i]) > Len(news_queue[i]) =>
                   /\ pc[i] = "put" /\ LoopStep(i)
                   /\ news_queue'[i] = Append(news_queue[i], Head(news_data[i]))
            /\ Len(news_queue'[i]) < Len(news_queue[i]) =>
                   /\ mpc = "get" /\ sidx = i /\ ~LoopStep(i)
                   /\ news_queue'[i] = Tail(news_queue[i])
       /\ seen_news' # seen_news =>
             (mpc \in {"idle", "add"} /\ \A i \in scrapers : ~LoopStep(i))]_vars

C21_Witness ==
    /\ pc[1] = "for" /\ news_queue[1] = <<ItemT1>> /\ pushed[1] # <<>>
    /\ stop_event[2] /\ thread[2] = "alive" /\ news_queue[2] = <<ItemT1>>
    /\ seen_news = {news_tuple(ItemT1)} /\ mpc = "empty"


\* C22: whatever start_thread and stop_thread calls were made on a
\* scraper, at most one loop thread of it has been launched and not ended,
\* and that one is self.thread.
C22_AtMostOneLoop ==
    \A i \in scrapers :
        /\ loops[i] \in {0, 1}
        /\ loops[i] = 1 <=> thread[i] = "alive"

C22_Witness ==
    \E i \in scrapers :
        /\ last_start[i] = "already" /\ stopping = 0
        /\ stop_event[i] /\ sinceStop[i] >= JoinTimeout
        /\ thread[i] = "alive" /\ pc[i] = "get" /\ loops[i] = 1


\* C23: when start_thread returns, the scraper's stop event is clear and
\* a loop thread of it is alive, whatever calls came before.
C23_RunningAfterStart ==
    [][\A i \in scrapers :
        StartThread(i) =>
            (~stop_event'[i] /\ thread'[i] = "alive" /\ loops'[i] = 1)]_vars


\* The sum of a sequence of numbers.
RECURSIVE Sum(_)
Sum(seq) == IF seq = <<>> THEN 0 ELSE Head(seq) + Sum(Tail(seq))

\* C24: fetch sleeps only between two attempts.  A fetch whose every
\* call timed out has slept max_retries - 1 times, 2^0, ..., 2^(max_retries-2)
\* seconds, 2^(max_retries-1) - 1 seconds in all; a fetch ended by a hard
\* failure has slept once per earlier timeout and not after the failure.
C24_NoWaitAfterLastAttempt ==
    \A i \in scrapers :
        /\ pc[i] = "backoff" => attempt[i] < max_retries - 1
        /\ (pc[i] = "ret" /\ timeouts[i] = calls[i]) =>
               /\ waits[i] = [j \in 1..(max_retries - 1) |-> 2 ^ (j - 1)]
               /\ Sum(waits[i]) = 2 ^ (max_retries - 1) - 1
        /\ (pc[i] = "ret" /\ hard[i]) =>
               /\ Len(waits[i]) = calls[i] - 1
               /\ Sum(waits[i]) = 2 ^ (calls[i] - 1) - 1

C24_Witness ==
    \E i \in scrapers :
        /\ pc[i] = "ret" /\ timeouts[i] = calls[i] /\ calls[i] = max_retries
        /\ waits[i] = <<1, 2, 4>>

=============================================================================
